---- MODULE Spec2Model ----
(***************************************************************************)
(* A model of dipy/reconst/ivim.py: the IVIM model object (IvimModel), its *)
(* single-voxel fit and the result container (IvimFit).                    *)
(*                                                                         *)
(* Number representation.  Floats are fixed-point integers:                *)
(*   S0, S0_prime : arbitrary signal units                                 *)
(*   f            : quarters        (1.0 is 4)                             *)
(*   D_star, D    : units of 1e-4   (0.05 is 500, 0.005 is 50,             *)
(*                                   0.01 is 100, 0.001 is 10)             *)
(* np.inf is the integer inf, larger than every other value of the model.  *)
(* None is the empty tuple << >>.                                          *)
(*                                                                         *)
(* The numerical libraries (np.polyfit, np.log, np.exp and scipy's         *)
(* least-squares solvers) are outside the repository.  A voxel's signal    *)
(* vector is represented by what these routines compute from it: the two   *)
(* regression lines and the unconstrained optima of the two least-squares  *)
(* problems.  Signals are positive and finite, so the logarithms and the   *)
(* regression results are finite numbers.  Everything ivim.py itself does  *)
(* with these numbers (the split, f = 1 - S0_prime/S0, the dispatch on     *)
(* method, the clamp, the bounds handed to the solver, what is stored on   *)
(* self) is modelled as written.                                           *)
(***************************************************************************)
EXTENDS Integers, Sequences, FiniteSets, TLC

VARIABLES
    SCIPY_LESS_0_17,  \* line 16: which solver back-end the installation has
    heap,             \* dict objects: reference -> options mapping
    models,           \* the IvimModel objects constructed so far
    made,             \* history: the bounds argument each was constructed with
    results,          \* per-voxel outcome of the batch of single-voxel fits
    fits,             \* the IvimFit objects of the result container
    lastOp            \* the last call made and its outcome

vars == <<SCIPY_LESS_0_17, heap, models, made, results, fits, lastOp>>

\* Bounds of the model: the models constructed where single fits are studied,
\* the instances constructed where the options are studied, the voxels of
\* the volume, the IvimFit objects held at once
MaxModels == 1
MaxInstances == 2
NVoxels == 3
MaxFits == 2

None == << >>

\* np.inf
inf == 1000000

\* 1.0 of the perfusion fraction, in quarters
one == 4

Max(a, b) == IF a > b THEN a ELSE b
Min(a, b) == IF a < b THEN a ELSE b

----------------------------------------------------------------------------
(* Gradient tables *)

\* gtab.bvals and gtab.b0s_mask of a GradientTable
GradientTable(bvals) ==
    [bvals |-> bvals, b0s_mask |-> [i \in DOMAIN bvals |-> bvals[i] = 0]]

\* np.any
np_any(mask) == \E i \in DOMAIN mask : mask[i]

\* The gradient tables models are constructed from
Gtabs ==
    { GradientTable(<<0, 50, 100, 150, 400, 600, 800, 1000>>),
      GradientTable(<<50, 100, 150, 400, 600, 800, 1000>>), \* no b0
      GradientTable(<<0, 200, 400, 600, 800>>),  \* one below the split
      GradientTable(<<0, 50, 100, 150, 400>>),   \* one at or above it
      GradientTable(<<0, 50, 100, 150>>) }       \* none at or above it

----------------------------------------------------------------------------
(* Options dictionaries *)

\* The dict literal of the signature, evaluated once when the class body is
\* executed; tolerances 1e-10 are the integer 10 (the negated exponent).
default_options_value == [gtol |-> 10, ftol |-> 10, eps |-> 10, maxiter |-> 1000]

\* The reference of that one dict object
DEFAULT_OPTIONS == 0

OptionKeys == {"gtol", "ftol", "eps", "maxiter"}

\* The options mappings a caller passes explicitly
ExplicitOptions == { [gtol |-> 7, ftol |-> 7, eps |-> 7, maxiter |-> 500] }

\* The values a caller assigns to an entry of model.options
OptionValues == {5}

----------------------------------------------------------------------------
(* IvimModel.__init__ *)

\* The bounds the else branch of the constructor assigns
default_bounds == << <<0, 0, 0, 0>>, <<inf, one, 500, 50>> >>

\* Bounds a caller passes: f <= 0.5, D_star <= 0.02, D <= 0.002
custom_bounds == << <<0, 0, 0, 0>>, <<inf, 2, 200, 20>> >>

\* The attributes the constructor assigns, in order
ModelAttributes == {"gtab", "split_b", "bounds", "tol", "options", "method"}

\* The b0 test of the constructor
has_b0_unchecked(gtab) == TRUE
has_b0(gtab) == np_any(gtab.b0s_mask)

\* The constructor as a function of its arguments: whether it raises, which
\* attributes it had assigned by then, and the object it leaves (a tuple of
\* zero or one objects).  options is the reference of the dict it is given.
IvimModel_init(gtab, split_b, method, bounds, tol, options) ==
    IF ~has_b0(gtab)
    THEN [raised |-> "ValueError", stored |-> {}, self |-> << >>]
    ELSE LET self == [gtab |-> gtab, split_b |-> split_b, bounds |-> bounds,
                      tol |-> tol, options |-> options, method |-> method]
         IN IF SCIPY_LESS_0_17 /\ self.bounds # None
            THEN [raised |-> "ValueError", stored |-> ModelAttributes,
                  self |-> << >>]
            ELSE [raised |-> "", stored |-> ModelAttributes,
                  self |-> << [self EXCEPT !.bounds = default_bounds] >>]

\* A fresh dict reference for an options mapping the caller builds
NewRef == Len(models) + 1

\* IvimModel(gtab, split_b, method, bounds, tol, options): given is the tuple
\* of zero or one explicit options mappings (zero: the argument is omitted).
Construct(gtab, split_b, method, bounds, tol, given) ==
    /\ LET ref == IF given = << >> THEN DEFAULT_OPTIONS ELSE NewRef
           r == IvimModel_init(gtab, split_b, method, bounds, tol, ref)
       IN /\ models' = IF r.raised = "" THEN Append(models, r.self[1])
                       ELSE models
          /\ made' = IF r.raised = "" THEN Append(made, bounds) ELSE made
          /\ heap' = IF given # << >> /\ r.raised = ""
                     THEN [x \in DOMAIN heap \cup {ref} |->
                             IF x = ref THEN given[1] ELSE heap[x]]
                     ELSE heap
          /\ lastOp' = [op |-> "init", gtab |-> gtab, bounds |-> bounds,
                        given |-> given, raised |-> r.raised,
                        stored |-> r.stored,
                        self |-> IF r.raised = "" THEN Len(models) + 1 ELSE 0]
    /\ UNCHANGED <<SCIPY_LESS_0_17, results, fits>>

----------------------------------------------------------------------------
(* Signals *)

\* The signal vector of one voxel, by what the numerical routines compute
\* from it: the high-b regression (S0_prime, D), the low-b regression
\* (S0, D_star_prime), the unconstrained optimum dstar_opt of the D_star
\* sub-fit and of the 4-parameter fit (opt; << >> when the solver stops at
\* its starting point).
Signal(S0_prime, D, dstar_opt, opt) ==
    [S0_prime |-> S0_prime, D |-> D, S0 |-> 4, D_star_prime |-> 300,
     dstar_opt |-> dstar_opt, opt |-> opt]

Signals ==
    { Signal(p, d, so[1], so[2]) :
        p \in {2, 8},                    \* f = 0.5, -1
        d \in {-5, 8, 30, 70},           \* D < 0, <= 0.001, <= 0.005, above
        so \in { <<60, << >> >>,         \* D_star <= 0.01; solver stays
                 <<300, <<5, 1, 60, 8>> >>,      \* above; optimum inside
                 <<-20, <<-1, 6, 700, 70>> >> } } \* below; optimum outside

\* The signal of voxel v of the volume the batch driver iterates over
Volume ==
    << Signal(2, 8, 60, <<5, 1, 60, 8>>), Signal(8, 70, 300, << >>),
       Signal(2, 30, -20, <<-1, 6, 700, 70>>), Signal(8, -5, 60, << >>) >>

VoxelData(v) == Volume[((v - 1) % Len(Volume)) + 1]

----------------------------------------------------------------------------
(* The staged initializer *)

\* self.gtab.bvals[self.gtab.bvals >= self.split_b]
bvals_ge_split(self) ==
    SelectSeq(self.gtab.bvals, LAMBDA b : b >= self.split_b)

\* self.gtab.bvals[self.gtab.bvals < self.split_b]
bvals_le_split_inclusive(self) ==
    SelectSeq(self.gtab.bvals, LAMBDA b : b <= self.split_b)
bvals_le_split(self) ==
    SelectSeq(self.gtab.bvals, LAMBDA b : b < self.split_b)

\* Building the sub-table and fitting a degree-1 polynomial to n points
\* fails when the line is under-determined.
regression_fails(n) == n < 2

estimate_S0_prime_D(self, data) ==
    IF regression_fails(Len(bvals_ge_split(self)))
    THEN [raised |-> "RegressionError", val |-> << >>]
    ELSE [raised |-> "", val |-> <<data.S0_prime, data.D>>]

estimate_S0_D_star_prime(self, data) ==
    IF regression_fails(Len(bvals_le_split(self)))
    THEN [raised |-> "RegressionError", val |-> << >>]
    ELSE [raised |-> "", val |-> <<data.S0, data.D_star_prime>>]

\* f = 1 - S0_prime/S0 (exact for the signals of the model)
perfusion_fraction(S0_prime, S0) == one - (one * S0_prime) \div S0

\* np.where(x > lo, x, lo) followed by np.where(x < hi, x, hi), elementwise
np_where_gt(x, lo) == [i \in DOMAIN x |-> IF x[i] > lo[i] THEN x[i] ELSE lo[i]]
np_where_lt(x, hi) == [i \in DOMAIN x |-> IF x[i] < hi[i] THEN x[i] ELSE hi[i]]

\* lb <= x <= ub, elementwise
in_bounds(x, bounds) ==
    \A i \in DOMAIN x : bounds[1][i] <= x[i] /\ x[i] <= bounds[2][i]

\* scipy.optimize.least_squares with box bounds, from the starting point x0
\* on a problem whose unconstrained optimum is opt: an infeasible x0 is
\* refused, and the solution lies in the box.
least_squares(x0, bounds, opt) ==
    IF ~in_bounds(x0, bounds)
    THEN [raised |-> "ValueError", x |-> << >>]
    ELSE [raised |-> "",
          x |-> IF opt = << >> THEN x0
                ELSE np_where_lt(np_where_gt(opt, bounds[1]), bounds[2])]

\* scipy.optimize.leastsq: no bounds
leastsq(x0, opt) ==
    [raised |-> "", x |-> IF opt = << >> THEN x0 ELSE opt]

\* The D_star sub-fit: leastsq on an old scipy, least_squares with bounds
\* (0., 0.01) otherwise, both from 0.0005.  It reads the tolerances and the
\* iteration cap from self.options and self.tol.
estimate_D_star(self, data, other_params) ==
    LET maxfev == heap[self.options].maxiter
        res == IF SCIPY_LESS_0_17
               THEN leastsq(<<5>>, <<data.dstar_opt>>)
               ELSE least_squares(<<5>>, << <<0>>, <<100>> >>,
                                  <<data.dstar_opt>>)
    IN res.x[1]

\* The 4-parameter refinement
ivim_leastsq(self, data, x0) ==
    LET maxfev == heap[self.options].maxiter
        bounds == self.bounds
    IN IF SCIPY_LESS_0_17
       THEN leastsq(x0, data.opt)
       ELSE least_squares(x0, bounds, data.opt)

\* The envelope fit clamps the initial guess into
hardcoded_bounds_check == << <<0, 0, 0, 0>>, <<inf, one, 100, 10>> >>

bounds_check_hardcoded(self) == hardcoded_bounds_check
bounds_check_of(self) ==
    IF self.bounds = None THEN hardcoded_bounds_check ELSE self.bounds

\* The single-voxel fit as a function of the model and the signal: the
\* error it raises, the initial guess x0, the envelope and the clamped
\* guess of the two_stage branch, and the parameters of the IvimFit returned.
NoFit(err) ==
    [raised |-> err, x0 |-> << >>, bounds_check |-> << >>,
     clamped |-> << >>, model_params |-> << >>]

fit(self, data) ==
    LET hi == estimate_S0_prime_D(self, data)
        lo == estimate_S0_D_star_prime(self, data)
    IN IF hi.raised # "" THEN NoFit(hi.raised)
       ELSE IF lo.raised # "" THEN NoFit(lo.raised)
       ELSE
         LET S0_prime == hi.val[1]
             D == hi.val[2]
             S0 == lo.val[1]
             f == perfusion_fraction(S0_prime, S0)
             D_star == estimate_D_star(self, data, <<S0, f, D>>)
             x0 == <<S0, f, D_star, D>>
         IN IF self.method = "one_stage"
            THEN [raised |-> "", x0 |-> x0, bounds_check |-> << >>,
                  clamped |-> << >>, model_params |-> x0]
            ELSE
              LET bounds_check == bounds_check_of(self)
                  x1 == np_where_lt(np_where_gt(x0, bounds_check[1]),
                                    bounds_check[2])
                  res == ivim_leastsq(self, data, x1)
              IN [raised |-> res.raised, x0 |-> x0,
                  bounds_check |-> bounds_check, clamped |-> x1,
                  model_params |-> res.x]

----------------------------------------------------------------------------
(* Actions *)

Unfitted == [fitted |-> FALSE, self |-> 0, data |-> << >>, out |-> NoFit("")]

\* model.fit(data) for the signal of voxel v, as the batch driver calls it:
\* the call reads models[m] and data and leaves every object as it was.
FitVoxel_storing(m, v, data) ==
    /\ m \in DOMAIN models
    /\ results' = [results EXCEPT ![v] =
                     [fitted |-> TRUE, self |-> m, data |-> <<data>>,
                      out |-> fit(models[m], data)]]
    /\ models' = [models EXCEPT ![m].bounds = hardcoded_bounds_check]
    /\ lastOp' = [op |-> "fit", self |-> m, voxel |-> v]
    /\ UNCHANGED <<SCIPY_LESS_0_17, heap, made, fits>>
FitVoxel(m, v, data) ==
    /\ m \in DOMAIN models
    /\ results' = [results EXCEPT ![v] =
                     [fitted |-> TRUE, self |-> m, data |-> <<data>>,
                      out |-> fit(models[m], data)]]
    /\ lastOp' = [op |-> "fit", self |-> m, voxel |-> v]
    /\ UNCHANGED <<SCIPY_LESS_0_17, heap, models, made, fits>>

\* model.options[key] = val, by a caller holding the model
SetOption(m, key, val) ==
    /\ m \in DOMAIN models
    /\ heap' = [heap EXCEPT ![models[m].options][key] = val]
    /\ lastOp' = [op |-> "setopt", self |-> m, key |-> key]
    /\ UNCHANGED <<SCIPY_LESS_0_17, models, made, results, fits>>

Init ==
    /\ SCIPY_LESS_0_17 \in BOOLEAN
    /\ heap = [x \in {DEFAULT_OPTIONS} |-> default_options_value]
    /\ models = << >>
    /\ made = << >>
    /\ results = [v \in 1..NVoxels |-> Unfitted]
    /\ fits = << >>
    /\ lastOp = [op |-> "none"]

----------------------------------------------------------------------------
(* Construction and single-voxel fits *)

ConstructModel ==
    /\ Len(models) < MaxModels
    /\ \E gtab \in Gtabs, method \in {"one_stage", "two_stage"},
          bounds \in {None, custom_bounds} :
           Construct(gtab, 200, method, bounds, 10, << >>)

FitSignal ==
    \E m \in DOMAIN models, data \in Signals : FitVoxel(m, 1, data)

Next == ConstructModel \/ FitSignal

Spec == Init /\ [][Next]_vars

----------------------------------------------------------------------------
(* Properties of construction and of the single-voxel fit *)

Fitted == {v \in DOMAIN results : results[v].fitted}
Returned == {v \in Fitted : results[v].out.raised = ""}
ModelOf(v) == models[results[v].self]

\* x with every component moved into [lo, hi]
ClampInto(x, b) ==
    [i \in DOMAIN x |-> IF x[i] > b[2][i] THEN b[2][i]
                        ELSE IF x[i] < b[1][i] THEN b[1][i] ELSE x[i]]

Within(x, b) == \A i \in DOMAIN x : b[1][i] <= x[i] /\ x[i] <= b[2][i]

\* C1: with a solver that supports bounds, every component of the parameter
\* tuple fit returns lies within the model's bounds, for both methods.
C1_ReturnedParamsWithinBounds ==
    ~SCIPY_LESS_0_17 =>
        \A v \in Returned :
            Within(results[v].out.model_params, ModelOf(v).bounds)

\* C2: when method is one_stage, fit returns the initial guess clamped into
\* the bounds-check interval; when it is two_stage, the clamped guess is what
\* the refinement starts from.
C2_ClampBeforeDispatch ==
    \A v \in Returned :
        LET out == results[v].out
            clamped == ClampInto(out.x0, bounds_check_of(ModelOf(v)))
        IN IF ModelOf(v).method = "one_stage"
           THEN out.model_params = clamped
           ELSE out.clamped = clamped

\* C3: with a solver that supports bounds, a model constructed with custom
\* bounds stores those bounds, and the default bounds only when none are
\* passed.
C3_CustomBoundsStored ==
    \A m \in DOMAIN models :
        models[m].bounds = IF made[m] = None THEN default_bounds ELSE made[m]

C5_NoB0Raises ==
    [][(lastOp'.op = "init" /\ ~np_any(lastOp'.gtab.b0s_mask)) =>
          /\ lastOp'.raised = "ValueError"
          /\ lastOp'.stored = {}
          /\ lastOp'.self = 0
          /\ models' = models
          /\ results' = results
          /\ heap' = heap]_vars

C5_Witness ==
    /\ lastOp.op = "init"
    /\ ~np_any(lastOp.gtab.b0s_mask)
    /\ lastOp.raised = "ValueError"
    /\ models = << >>

\* The number of measurements on each side of the split
NHigh(self) == Cardinality({i \in DOMAIN self.gtab.bvals :
                               self.gtab.bvals[i] >= self.split_b})
NLow(self) == Cardinality({i \in DOMAIN self.gtab.bvals :
                              self.gtab.bvals[i] < self.split_b})

----------------------------------------------------------------------------
(* The batch of single-voxel fits over a volume *)

StandardGtab == GradientTable(<<0, 50, 100, 150, 400, 600, 800, 1000>>)

ConstructForBatch ==
    /\ Len(models) < MaxModels
    /\ \E gtab \in {StandardGtab, GradientTable(<<0, 50, 100, 150, 400>>)},
          method \in {"one_stage", "two_stage"},
          bounds \in {None, custom_bounds} :
           Construct(gtab, 200, method, bounds, 10, << >>)

FitBatchVoxel ==
    \E m \in DOMAIN models, v \in 1..NVoxels : FitVoxel(m, v, VoxelData(v))

NextVoxels == ConstructForBatch \/ FitBatchVoxel

SpecVoxels == Init /\ [][NextVoxels]_vars

\* C10: a single-voxel fit writes neither the model configuration nor the
\* options, so in any order of fit calls over the voxels each voxel's
\* result is the one the model as it was before the calls gives for that
\* voxel's signal alone.
C10_FitsIndependent ==
    [][lastOp'.op = "fit" =>
          /\ models' = models
          /\ heap' = heap
          /\ \A v \in 1..NVoxels :
                results'[v].fitted =>
                    results'[v].out =
                        fit(models[results'[v].self], VoxelData(v))]_vars

\* Every voxel of the volume has been fitted, the last of them after others,
\* and some fit returned parameters.
C10_Witness ==
    /\ lastOp.op = "fit"
    /\ \A v \in 1..NVoxels : results[v].fitted
    /\ \E v \in 1..NVoxels : results[v].out.raised = ""

----------------------------------------------------------------------------
(* Several instances and their options *)

ConstructInstance ==
    /\ Len(models) < MaxInstances
    /\ \E given \in {<< >>} \cup {<<o>> : o \in ExplicitOptions} :
           Construct(StandardGtab, 200, "two_stage", None, 10, given)

UpdateOption ==
    \E m \in DOMAIN models, key \in OptionKeys, val \in OptionValues :
        SetOption(m, key, val)

NextOptions == ConstructInstance \/ UpdateOption

SpecOptions == Init /\ [][NextOptions]_vars

\* C9: instances constructed without an options argument (they hold the
\* reference DEFAULT_OPTIONS) have independent options: updating an entry
\* of one instance's options leaves every other such instance's options
\* unchanged, and an instance constructed later starts from the default
\* values.
C9_OptionsIndependent ==
    [][/\ lastOp'.op = "setopt" =>
            \A b \in DOMAIN models :
                (b # lastOp'.self /\ models[b].options = DEFAULT_OPTIONS) =>
                    heap'[models[b].options] = heap[models[b].options]
       /\ (lastOp'.op = "init" /\ lastOp'.raised = ""
                               /\ lastOp'.given = << >>) =>
            heap'[models'[lastOp'.self].options] = default_options_value
      ]_vars

----------------------------------------------------------------------------
(* numpy arrays and basic indexing *)

\* An array is its shape and its elements in row-major order; a scalar has
\* the empty shape.
RECURSIVE Prod(_)
Prod(s) == IF s = << >> THEN 1 ELSE s[1] * Prod(Tail(s))

ndim(arr) == Len(arr.shape)

\* The array of the given shape holding 1, 2, 3, ... in row-major order
Arange(shape) == [shape |-> shape, data |-> [p \in 1..Prod(shape) |-> p]]

\* Index items: an integer, or slice(a, b); slice(None) is slice(0, inf)
At(i) == [t |-> "int", a |-> i, b |-> 0]
Slice(a, b) == [t |-> "slice", a |-> a, b |-> b]
Full == Slice(0, inf)

\* The positions (0-based) an item selects on an axis of length d
Selected(item, d) ==
    IF item.t = "int"
    THEN << IF item.a < 0 THEN item.a + d ELSE item.a >>
    ELSE [j \in 1..Max(0, Min(item.b, d) - Min(item.a, d)) |->
            Min(item.a, d) + j - 1]

\* arr[items] for a tuple of integers and slices
np_getitem(arr, items) ==
    LET N == ndim(arr)
    IN IF Len(items) > N
          \/ \E k \in DOMAIN items :
                /\ items[k].t = "int"
                /\ (items[k].a >= arr.shape[k] \/ items[k].a < -arr.shape[k])
       THEN [raised |-> "IndexError", arr |-> Arange(<<0>>)]
       ELSE
         LET full == items \o [k \in 1..(N - Len(items)) |-> Full]
             sel == [k \in 1..N |-> Selected(full[k], arr.shape[k])]
             kept == SelectSeq([k \in 1..N |-> k],
                               LAMBDA k : full[k].t = "slice")
             shape == [j \in DOMAIN kept |-> Len(sel[kept[j]])]
             stride(sh, k) == Prod(SubSeq(sh, k + 1, Len(sh)))
             \* the position on kept axis j of the element at offset p
             coord(p, j) == (p \div stride(shape, j)) % shape[j]
             pos(k) == CHOOSE j \in DOMAIN kept : kept[j] = k
             source(p, k) == IF full[k].t = "int" THEN sel[k][1]
                             ELSE sel[k][coord(p, pos(k)) + 1]
             RECURSIVE offset(_, _)
             offset(p, k) == IF k > N THEN 0
                             ELSE source(p, k) * stride(arr.shape, k)
                                    + offset(p, k + 1)
         IN [raised |-> "",
             arr |-> [shape |-> shape,
                      data |-> [q \in 1..Prod(shape) |->
                                  arr.data[offset(q - 1, 1) + 1]]]]

----------------------------------------------------------------------------
(* IvimFit *)

\* A Python index: a tuple of items, or a single item that is not a tuple
TupleIndex(items) == [tuple |-> TRUE, items |-> items]
SingleIndex(item) == [tuple |-> FALSE, items |-> <<item>>]

\* IvimFit.__getitem__: the error raised and the parameter array of the
\* IvimFit returned
IvimFit_getitem(self, index) ==
    LET model_params == self.model_params
        N == ndim(model_params)
        index1 == index.items
    IN IF index.tuple /\ Len(index.items) >= ndim(model_params)
       THEN [raised |-> "IndexError", arr |-> Arange(<<0>>)]
       ELSE np_getitem(model_params,
                       index1 \o [k \in 1..(N - Len(index1)) |-> Full])

\* self.model_params[..., j]
accessor(model_params, j) ==
    IF ndim(model_params) = 0
    THEN [raised |-> "IndexError", arr |-> Arange(<<0>>)]
    ELSE np_getitem(model_params,
                    [k \in 1..(ndim(model_params) - 1) |-> Full]
                      \o <<At(j)>>)

\* IvimFit.shape
IvimFit_shape(self) ==
    SubSeq(self.model_params.shape, 1, ndim(self.model_params) - 1)

\* IvimFit(model, model_params)
IvimFit_init(model, model_params) ==
    /\ fits' = Append(fits, [model |-> model, model_params |-> model_params])
    /\ lastOp' = [op |-> "wrap"]
    /\ UNCHANGED <<SCIPY_LESS_0_17, heap, models, made, results>>

\* fits[i][index]
GetItem(i, index) ==
    LET r == IvimFit_getitem(fits[i], index)
    IN /\ fits' = IF r.raised = "" /\ Len(fits) < MaxFits
                  THEN Append(fits, [model |-> fits[i].model,
                                     model_params |-> r.arr])
                  ELSE fits
       /\ lastOp' = [op |-> "getitem", src |-> fits[i], index |-> index,
                     raised |-> r.raised, out |-> r.arr]
       /\ UNCHANGED <<SCIPY_LESS_0_17, heap, models, made, results>>

\* The parameter arrays wrapped: one voxel, a row, a plane and a volume
ParamArrays ==
    { Arange(<<4>>), Arange(<<2, 4>>), Arange(<<2, 2, 4>>),
      Arange(<<1, 2, 2, 4>>) }

Indexes ==
    { SingleIndex(it) : it \in {At(-1), At(0), At(1), At(2), Full,
                                Slice(0, 1)} }
    \cup { TupleIndex(t) : t \in UNION { [1..n -> {At(0), At(1), Full}] :
                                           n \in 0..2 } }
    \cup { TupleIndex(t) : t \in UNION { [1..n -> {At(0), Full}] :
                                           n \in 3..4 } }

WrapParams ==
    /\ Len(fits) < MaxFits
    /\ \E arr \in ParamArrays : IvimFit_init(0, arr)

IndexFit == \E i \in DOMAIN fits, index \in Indexes : GetItem(i, index)

NextIndex == WrapParams \/ IndexFit

SpecIndex == Init /\ [][NextIndex]_vars

\* The dimensionality of an index: the length of a tuple, 1 otherwise
IndexDim(index) == IF index.tuple THEN Len(index.items) ELSE 1

\* C6: __getitem__ raises an IndexError for every index, tuple or not, whose
\* dimensionality is at least that of the stored parameter array.
C6_RejectsFullDimIndex ==
    (/\ lastOp.op = "getitem"
     /\ IndexDim(lastOp.index) >= ndim(lastOp.src.model_params)) =>
        lastOp.raised = "IndexError"

\* C7: for every accepted index the sub-result keeps the trailing axis of
\* length 4, its shape is the voxel shape indexed, and each accessor of the
\* sub-result is the accessor of the result indexed the same way.
C7_IndexingKeepsParameterAxis ==
    (/\ lastOp.op = "getitem"
     /\ lastOp.raised = ""
     /\ ndim(lastOp.src.model_params) >= 1
     /\ lastOp.src.model_params.shape[ndim(lastOp.src.model_params)] = 4) =>
        LET src == lastOp.src.model_params
            out == lastOp.out
        IN /\ ndim(out) >= 1
           /\ out.shape[ndim(out)] = 4
           /\ \A j \in 0..3 :
                 LET whole == accessor(src, j)
                     part == accessor(out, j)
                     want == np_getitem(whole.arr, lastOp.index.items)
                 IN /\ whole.raised = ""
                    /\ part.raised = ""
                    /\ want.raised = ""
                    /\ part.arr = want.arr
                    /\ IvimFit_shape([model |-> lastOp.src.model,
                                      model_params |-> out])
                         = want.arr.shape

====
